---- MODULE Spec2Model ----
(***************************************************************************)
(* Workspace template catalog of templates-tree-provider.ts.               *)
(*                                                                         *)
(* Spec: the _workspaces cache, the workspaceNode / workspaceNodeChildren  *)
(* queries, the scan started by update(), the three file-watcher handlers  *)
(* and refresh().                                                          *)
(*                                                                         *)
(* SpecGetTemplates: the needUpdate-flag catalog of getTemplates.          *)
(*                                                                         *)
(* SpecRename, SpecCreateFile: the rename and createFile commands.         *)
(*                                                                         *)
(* SpecManager: the templates manager of createTemplatesManager: update()  *)
(* and the watcher registrations of onUpdate.                              *)
(***************************************************************************)
EXTENDS Integers, Sequences, FiniteSets, TLC

\* ------------------------------------------------------------------ bounds
\* scans (update() promises) that may be in flight at the same time
MaxScans == 2
\* longest templates list a create handler may still push to
MaxLen == 2
\* readTemplate calls that the create handler of one workspace may have in
\* flight for one path
MaxReads == 1
\* context calls that compiling one template makes
MaxCalls == 3
\* showQuickPick calls of one multiselectValueCustom loop
MaxPicks == 2
\* createFileSystemWatcher pairs that onUpdate may create
MaxWatchers == 2

\* --------------------------------------------------------- the file system
\* vscode.workspace.workspaceFolders, by name, in order
WorkspaceFolders == <<"A", "B">>

Workspaces == {WorkspaceFolders[i] : i \in 1..Len(WorkspaceFolders)}

\* the paths the file system may hold
Files ==
  {"A/a.dotjs", "A/c.dotjs", "A/src/a.dotjs", "A/rebuild/r.dotjs",
   "A/dist/d.dotjs", "A/notes.txt", "B/b.dotjs"}

\* the order in which a directory walk meets the paths
WalkOrder ==
  <<"A/a.dotjs", "A/c.dotjs", "A/src/a.dotjs", "A/rebuild/r.dotjs",
    "A/dist/d.dotjs", "A/notes.txt", "B/b.dotjs">>

\* paths that are created, changed and deleted while the catalog runs
Dynamic == {"A/a.dotjs"}

\* paths that may or may not be there from the start
Optional == {"A/a.dotjs", "B/b.dotjs"}

\* paths that are there from the start
Static == {"A/src/a.dotjs", "A/rebuild/r.dotjs", "A/dist/d.dotjs", "A/notes.txt"}

\* the name that the input box of the rename command returns
RenameResult == "c"

\* join(dirname(path), RenameResult + templateExtension)
RenameTo(path) == "A/c.dotjs"

\* the workspace folder a path lies under
FolderOf(f) == IF f = "B/b.dotjs" THEN "B" ELSE "A"

\* the directories between the workspace folder and the file; a directory
\* name is the sequence of the words it is spelled with
DirsOf(f) ==
  CASE f = "A/src/a.dotjs"     -> << <<"src">> >>
    [] f = "A/rebuild/r.dotjs" -> << <<"re", "build">> >>
    [] f = "A/dist/d.dotjs"    -> << <<"dist">> >>
    [] OTHER                   -> << >>

\* path.basename(f): the stem and the extension
Basename(f) ==
  CASE f = "A/a.dotjs"         -> <<"a", ".dotjs">>
    [] f = "A/c.dotjs"         -> <<RenameResult, ".dotjs">>
    [] f = "A/src/a.dotjs"     -> <<"a", ".dotjs">>
    [] f = "A/rebuild/r.dotjs" -> <<"r", ".dotjs">>
    [] f = "A/dist/d.dotjs"    -> <<"d", ".dotjs">>
    [] f = "A/notes.txt"       -> <<"notes", ".txt">>
    [] OTHER                   -> <<"b", ".dotjs">>

templateExtension == ".dotjs"

\* the texts a file may hold
Codes == {"t1"}

\* ----------------------------------------------------------------- values
\* templates: Template[] | undefined
Undefined == << >>
Defined(ts) == <<ts>>
IsDefined(v) == v # Undefined
ListOf(v) == v[1]

\* String.prototype.endsWith / includes on names spelled as word sequences
EndsWith(name, suffix) == Len(name) > 0 /\ name[Len(name)] = suffix
Includes(name, word) == \E i \in 1..Len(name) : name[i] = word

\* readTemplate, given the text that readFile returned
TemplateOf(basename, fullPath, code) ==
  [contextValue |-> "template",
   name  |-> IF EndsWith(basename, templateExtension)
               THEN SubSeq(basename, 1, Len(basename) - 1)
               ELSE basename,
   label |-> basename,
   code  |-> code,
   path  |-> fullPath]

VARIABLES
  disk,        \* the paths that exist -> their content
  workspaces,  \* _workspaces: key -> [templates, subscriptions]
  scans,       \* the update() promises in flight, oldest first
  reads,       \* <<key, path>> -> the readTemplate promises of the create
               \* handler of workspace key in flight for the path
  ctxSubs,     \* context.subscriptions
  watchers,    \* key -> createFileSystemWatcher calls made for it
  last,        \* the last step that was no children query, and what it returned
  templates,   \* getTemplates: key -> [templates, needUpdate, subscriptions]
  gtScans,     \* getTemplates: the calls past their first await, oldest first
  gtCtxSubs,   \* getTemplates: context.subscriptions
  gtWatchers,  \* getTemplates: key -> createFileSystemWatcher calls made for it
  renaming,    \* the rename command under way: its paths, the watcher events
               \* delivered so far and the list the item was taken from
  pc,          \* createFile: the await it is suspended at
  tmpl,        \* createFile: the template, as the context calls that
               \* compiling its code makes
  ci,          \* createFile: the context calls that compile has made
  interactives,\* createFile: the Map of interactives(), in insertion order
  returned,    \* createFile: what the context calls returned, in call order
  pos,         \* run: the entries of the Map that the loop has passed
  outstanding, \* run: the interaction functions called and not yet settled
  asked,       \* run: the interaction functions called, in call order
  result,      \* run: result
  runRet,      \* createFile: what await run() gave
  target,      \* createFile: the file at filename
  writes,      \* createFile: the writeFile calls made
  replaced,    \* createFile: the answer to 'Replace existing file'
  shown,       \* createFile: 'Creation interrupted' was shown
  tdir,        \* manager: the templates directory: whether it is there, and
               \* its files -> their content
  wsName,      \* manager: vscode.workspace.name
  subscribed,  \* manager: subscribed
  subs,        \* manager: subs
  disposed,    \* manager: the registrations that were disposed
  mgrCtxSubs,  \* manager: context.subscriptions
  mgrTemplates,\* manager: templates
  updates      \* manager: the update() calls in flight, oldest first

\* the state of the workspaceNode catalog
catalogVars == <<workspaces, scans, reads, ctxSubs, watchers>>

\* the state of the getTemplates catalog
gtVars == <<templates, gtScans, gtCtxSubs, gtWatchers>>

\* the state of the createFile command
cfVars == <<pc, tmpl, ci, interactives, returned, pos, outstanding, asked,
            result, runRet, target, writes, replaced, shown>>

\* the state of the templates manager
mgrVars == <<tdir, wsName, subscribed, subs, disposed, mgrCtxSubs, mgrTemplates,
             updates>>

\* the state outside the workspaceNode catalog
restVars == <<gtVars, renaming, cfVars, mgrVars>>

vars == <<disk, workspaces, scans, reads, ctxSubs, watchers, last,
          templates, gtScans, gtCtxSubs, gtWatchers, renaming,
          pc, tmpl, ci, interactives, returned, pos, outstanding, asked,
          result, runRet, target, writes, replaced, shown,
          tdir, wsName, subscribed, subs, disposed, mgrCtxSubs, mgrTemplates,
          updates>>

Exists(d, f) == f \in DOMAIN d

\* ------------------------------------------------------------------ readdirp
directoryFilter(d) ==
  /\ ~Includes(d, "node_modules")
  /\ ~Includes(d, "dist")
  /\ ~Includes(d, "build")

fileFilter(basename) == EndsWith(basename, templateExtension)

\* readdirp.promise(path of folder key, {directoryFilter, fileFilter})
Readdirp(d, key) ==
  SelectSeq(WalkOrder,
    LAMBDA f : /\ Exists(d, f)
               /\ FolderOf(f) = key
               /\ \A i \in 1..Len(DirsOf(f)) : directoryFilter(DirsOf(f)[i])
               /\ fileFilter(Basename(f)))

\* createFileSystemWatcher('**/*' + templateExtension): the paths it reports
Watched(f) == EndsWith(Basename(f), templateExtension)

\* ------------------------------------------------------------- Array helpers
Min(a, b) == IF a < b THEN a ELSE b
Max(a, b) == IF a > b THEN a ELSE b

\* Array.prototype.findIndex(t => t.path === path): 0-based, -1 when none
FindIndex(ts, path) ==
  IF \E i \in 1..Len(ts) : ts[i].path = path
    THEN (CHOOSE i \in 1..Len(ts) :
            /\ ts[i].path = path
            /\ \A j \in 1..(i - 1) : ts[j].path # path) - 1
    ELSE -1

\* Array.prototype.splice(start, deleteCount): the array that is left
Splice(ts, start, deleteCount) ==
  LET from == IF start < 0 THEN Max(Len(ts) + start, 0) ELSE Min(start, Len(ts))
      n    == Min(Max(deleteCount, 0), Len(ts) - from)
  IN  SubSeq(ts, 1, from) \o SubSeq(ts, from + n + 1, Len(ts))

\* the elements of a sequence
Range(s) == {s[i] : i \in 1..Len(s)}

\* the sequence without its i-th element (1-based)
RemoveAt(s, i) == SubSeq(s, 1, i - 1) \o SubSeq(s, i + 1, Len(s))

\* a record (object) with key k set to v
Put(obj, k, v) == [x \in DOMAIN obj \cup {k} |-> IF x = k THEN v ELSE obj[x]]

\* ------------------------------------------------------------ the catalog
NewEntry == [templates |-> Undefined, subscriptions |-> << >>]

\* _workspaces[key] ? _workspaces[key] : _workspaces[key] = {...}
EntryOf(ws, key) == IF key \in DOMAIN ws THEN ws[key] ELSE NewEntry

\* mutant: the guard on the watcher is dropped
NeedsWatcher_Always(w) == TRUE

\* w.subscriptions.length === 0
NeedsWatcher(w) == Len(w.subscriptions) = 0

Subscribed(ws, key) == key \in DOMAIN ws /\ Len(ws[key].subscriptions) > 0

\* the listeners of one watcher
WatcherSubscriptions(key) ==
  << <<key, "onDidCreate">>, <<key, "onDidDelete">>, <<key, "onDidChange">> >>

\* the node returned for a workspace whose templates are held
LoadedNode(key, ts) ==
  [contextValue |-> "workspace", label |-> key,
   isEmpty |-> Len(ts) = 0, isLoading |-> FALSE]

\* mutant: the node of an unloaded workspace is not marked as loading
LoadingNode_NotLoading(key) ==
  [contextValue |-> "workspace", label |-> key,
   isEmpty |-> TRUE, isLoading |-> FALSE]

\* the node returned for a workspace whose templates are undefined
LoadingNode(key) ==
  [contextValue |-> "workspace", label |-> key,
   isEmpty |-> TRUE, isLoading |-> TRUE]

\* update(): a scan of the workspace, not yet listed
NewScan(key) == [key |-> key, stage |-> "listing", files |-> << >>]

\* workspaceNode(key) on the catalog state st
workspaceNode(st, key) ==
  LET w == EntryOf(st.workspaces, key) IN
  IF IsDefined(w.templates)
    THEN [st EXCEPT !.workspaces = Put(st.workspaces, key, w),
                    !.nodes = Append(st.nodes, LoadedNode(key, ListOf(w.templates)))]
    ELSE
      LET sub == NeedsWatcher(w)
          w2  == IF sub THEN [w EXCEPT !.subscriptions = WatcherSubscriptions(key)]
                        ELSE w
      IN  [workspaces |-> Put(st.workspaces, key, w2),
           scans      |-> Append(st.scans, NewScan(key)),
           ctxSubs    |-> IF sub THEN st.ctxSubs \o w2.subscriptions ELSE st.ctxSubs,
           watchers   |-> IF sub THEN [st.watchers EXCEPT ![key] = @ + 1]
                                 ELSE st.watchers,
           nodes      |-> Append(st.nodes, LoadingNode(key))]

\* workspaceFolders.map(({ name }) => workspaceNode(name))
RECURSIVE MapWorkspaceNode(_, _)
MapWorkspaceNode(st, keys) ==
  IF keys = << >> THEN st
  ELSE MapWorkspaceNode(workspaceNode(st, Head(keys)), Tail(keys))

\* workspaceNodeChildren(key): the list it returns
workspaceNodeChildren(ws, key) ==
  LET w == EntryOf(ws, key) IN
  IF IsDefined(w.templates) THEN ListOf(w.templates) ELSE << >>

\* mutant: the lists are emptied instead of being dropped
resetWorkspaces_Empty(ws) ==
  [k \in DOMAIN ws |-> [ws[k] EXCEPT !.templates = Defined(<< >>)]]

\* resetWorkspaces()
resetWorkspaces(ws) == [k \in DOMAIN ws |-> [ws[k] EXCEPT !.templates = Undefined]]

\* mutant: splice(index) without its deleteCount
onDidDelete_SpliceRest(w, path) ==
  IF IsDefined(w.templates)
    THEN LET index == FindIndex(ListOf(w.templates), path)
         IN  [w EXCEPT !.templates =
                Defined(Splice(ListOf(w.templates), index, Len(ListOf(w.templates))))]
    ELSE w

\* the body of the watcher.onDidDelete listener of one workspace
onDidDelete(w, path) ==
  IF IsDefined(w.templates)
    THEN LET index == FindIndex(ListOf(w.templates), path)
         IN  [w EXCEPT !.templates = Defined(Splice(ListOf(w.templates), index, 1))]
    ELSE w

\* mutant: unshift instead of push
onDidCreate_Unshift(w, t) ==
  IF IsDefined(w.templates)
    THEN [w EXCEPT !.templates = Defined(<<t>> \o ListOf(w.templates))]
    ELSE w

\* the then-callback of the watcher.onDidCreate listener: w.templates?.push(t)
onDidCreate(w, t) ==
  IF IsDefined(w.templates)
    THEN [w EXCEPT !.templates = Defined(Append(ListOf(w.templates), t))]
    ELSE w

\* the workspaces whose watcher.onDidChange listener (update) runs, in order
ChangeListeners(ws) == SelectSeq(WorkspaceFolders, LAMBDA k : Subscribed(ws, k))

RECURSIVE StartScans(_, _)
StartScans(ss, keys) ==
  IF keys = << >> THEN ss
  ELSE StartScans(Append(ss, NewScan(Head(keys))), Tail(keys))

\* the record of a step: the handler, its workspace and path, the paths it
\* read, and the value it returned (for delete: the workspaces whose list held
\* the path; for refresh: the workspaces that were loaded)
Step(op, key, file, read, ret) ==
  [op |-> op, ws |-> key, file |-> file, read |-> read, ret |-> ret]

\* ------------------------------------------------------------------ Init
\* a promise that is pending, that resolved to v, that rejected
NotSettled == [pending |-> TRUE]
Resolved(v) == [resolved |-> v]
Rejected == [rejected |-> TRUE]

\* vscode.workspace.name when no workspace is open, and subscribed = null
NoName == "-"

\* createFile has not looked up its template
NoTemplate == [calls |-> << >>, malformed |-> FALSE]

\* no rename command under way
NoRename == [stage |-> "none", from |-> "-", to |-> "-", first |-> "-",
             key |-> "-", before |-> << >>]

\* the state after construction, on any disk
InitState ==
  /\ workspaces = << >>
  /\ scans = << >>
  /\ reads = [p \in Workspaces \X (Dynamic \cup {RenameTo(f) : f \in Dynamic}) |-> 0]
  /\ ctxSubs = << >>
  /\ watchers = [k \in Workspaces |-> 0]
  /\ last = Step("init", "-", "-", {}, << >>)
  /\ templates = << >>
  /\ gtScans = << >>
  /\ gtCtxSubs = << >>
  /\ gtWatchers = [k \in Workspaces |-> 0]
  /\ renaming = NoRename
  /\ pc = "idle"
  /\ tmpl = NoTemplate
  /\ ci = 0
  /\ interactives = << >>
  /\ returned = << >>
  /\ pos = 0
  /\ outstanding = << >>
  /\ asked = << >>
  /\ result = << >>
  /\ runRet = NotSettled
  /\ writes = << >>
  /\ replaced = "unasked"
  /\ shown = FALSE
  /\ wsName = NoName
  /\ subscribed = NoName
  /\ subs = << >>
  /\ disposed = {}
  /\ mgrCtxSubs = << >>
  /\ mgrTemplates = << >>
  /\ updates = << >>

\* the text of a file that is not there, and of a file that was there before
\* createFile
NoText == [none |-> TRUE]
OldText == [old |-> TRUE]

\* the templates directory is not there
NoDir == [exists |-> FALSE, files |-> << >>]

\* the target of createFile is not there
NoTarget == target = [exists |-> FALSE, text |-> NoText]

Init ==
  /\ NoTarget
  /\ tdir = NoDir
  /\ disk \in {[f \in S \cup Static |-> "t1"] : S \in SUBSET Optional}
  /\ InitState

\* --------------------------------------------------------------- queries
\* getChildren(undefined)
GetChildrenRoot ==
  LET st == MapWorkspaceNode(
              [workspaces |-> workspaces, scans |-> scans, ctxSubs |-> ctxSubs,
               watchers |-> watchers, nodes |-> << >>], WorkspaceFolders)
  IN  /\ Len(st.scans) <= MaxScans
      /\ workspaces' = st.workspaces
      /\ scans' = st.scans
      /\ ctxSubs' = st.ctxSubs
      /\ watchers' = st.watchers
      /\ last' = Step("getChildren", "-", "-", {}, st.nodes)
      /\ UNCHANGED <<disk, reads>>
      /\ UNCHANGED restVars

\* getChildren(element) for a workspace node the view holds
GetChildrenWorkspace(key) ==
  /\ key \in DOMAIN workspaces
  /\ workspaces' = Put(workspaces, key, EntryOf(workspaces, key))
  /\ UNCHANGED <<disk, scans, reads, ctxSubs, watchers, last>>
  /\ UNCHANGED restVars

\* refresh()
Refresh ==
  /\ workspaces' = resetWorkspaces(workspaces)
  /\ last' = Step("refresh", "-", "-", {},
                  {k \in DOMAIN workspaces : IsDefined(workspaces[k].templates)})
  /\ UNCHANGED <<disk, scans, reads, ctxSubs, watchers>>
  /\ UNCHANGED restVars

\* ------------------------------------------------------------------ scans
\* readdirp.promise of scan i resolves
ScanList(i) ==
  /\ i \in 1..Len(scans)
  /\ scans[i].stage = "listing"
  /\ scans' = [scans EXCEPT ![i] = [key   |-> scans[i].key,
                                     stage |-> "reading",
                                     files |-> Readdirp(disk, scans[i].key)]]
  /\ last' = Step("scanList", scans[i].key, "-", {}, << >>)
  /\ UNCHANGED <<disk, workspaces, reads, ctxSubs, watchers>>
  /\ UNCHANGED restVars

\* Promise.all(files.map(readTemplate)) of scan i resolves: w.templates = templates
ScanDone(i) ==
  /\ i \in 1..Len(scans)
  /\ scans[i].stage = "reading"
  /\ \A j \in 1..Len(scans[i].files) : Exists(disk, scans[i].files[j])
  /\ LET key == scans[i].key
         fs  == scans[i].files
         ts  == [j \in 1..Len(fs) |-> TemplateOf(Basename(fs[j]), fs[j], disk[fs[j]])]
     IN  /\ workspaces' = [workspaces EXCEPT ![key].templates = Defined(ts)]
         /\ last' = Step("scanDone", key, "-", {fs[j] : j \in 1..Len(fs)}, << >>)
  /\ scans' = RemoveAt(scans, i)
  /\ UNCHANGED <<disk, reads, ctxSubs, watchers>>
  /\ UNCHANGED restVars

\* a readFile of scan i rejects: the listed file is gone
ScanFail(i) ==
  /\ i \in 1..Len(scans)
  /\ scans[i].stage = "reading"
  /\ \E j \in 1..Len(scans[i].files) : ~Exists(disk, scans[i].files[j])
  /\ scans' = RemoveAt(scans, i)
  /\ last' = Step("scanFail", scans[i].key, "-", {}, << >>)
  /\ UNCHANGED <<disk, workspaces, reads, ctxSubs, watchers>>
  /\ UNCHANGED restVars

\* ------------------------------------------------------- watcher events
\* the create listeners that a create event of path f calls: one readTemplate
\* is pending for each afterwards
CreateListeners(ws, f) ==
  IF Watched(f) THEN {<<k, f>> : k \in {x \in Workspaces : Subscribed(ws, x)}}
                ELSE {}

DeliverCreate(rd, ws, f) ==
  [p \in DOMAIN rd |-> IF p \in CreateListeners(ws, f) THEN rd[p] + 1 ELSE rd[p]]

\* every delete listener has run for path f
DeliverDelete(ws, f) ==
  [k \in DOMAIN ws |-> IF Watched(f) /\ Subscribed(ws, k)
                         THEN onDidDelete(ws[k], f)
                         ELSE ws[k]]

\* a template file appears: every watcher.onDidCreate listener starts readTemplate
FsCreate(f, c) ==
  /\ f \in Dynamic /\ ~Exists(disk, f)
  /\ disk' = Put(disk, f, c)
  /\ \A p \in CreateListeners(workspaces, f) : reads[p] < MaxReads
  /\ reads' = DeliverCreate(reads, workspaces, f)
  /\ last' = Step("create", "-", f, {}, << >>)
  /\ UNCHANGED <<workspaces, scans, ctxSubs, watchers>>
  /\ UNCHANGED restVars

\* the readTemplate of a create listener resolves
CreateDone(k, f) ==
  /\ <<k, f>> \in DOMAIN reads /\ reads[<<k, f>>] > 0
  /\ Exists(disk, f)
  /\ IsDefined(workspaces[k].templates) => Len(ListOf(workspaces[k].templates)) < MaxLen
  /\ workspaces' = [workspaces EXCEPT
                      ![k] = onDidCreate(@, TemplateOf(Basename(f), f, disk[f]))]
  /\ reads' = [reads EXCEPT ![<<k, f>>] = @ - 1]
  /\ last' = Step("createDone", k, f, {f}, << >>)
  /\ UNCHANGED <<disk, scans, ctxSubs, watchers>>
  /\ UNCHANGED restVars

\* the readTemplate of a create listener rejects: the file is gone
CreateFail(k, f) ==
  /\ <<k, f>> \in DOMAIN reads /\ reads[<<k, f>>] > 0
  /\ ~Exists(disk, f)
  /\ reads' = [reads EXCEPT ![<<k, f>>] = @ - 1]
  /\ last' = Step("createFail", k, f, {}, << >>)
  /\ UNCHANGED <<disk, workspaces, scans, ctxSubs, watchers>>
  /\ UNCHANGED restVars

\* a template file disappears: every watcher.onDidDelete listener runs
FsDelete(f) ==
  /\ f \in Dynamic /\ Exists(disk, f)
  /\ disk' = [x \in DOMAIN disk \ {f} |-> disk[x]]
  /\ workspaces' = DeliverDelete(workspaces, f)
  /\ last' = Step("delete", "-", f, {},
                  {k \in DOMAIN workspaces :
                     /\ Watched(f) /\ Subscribed(workspaces, k)
                     /\ IsDefined(workspaces[k].templates)
                     /\ FindIndex(ListOf(workspaces[k].templates), f) >= 0})
  /\ UNCHANGED <<scans, reads, ctxSubs, watchers>>
  /\ UNCHANGED restVars

\* a template file is rewritten: every watcher.onDidChange listener runs update
FsChange(f, c) ==
  /\ f \in Dynamic /\ Exists(disk, f)
  /\ disk' = [disk EXCEPT ![f] = c]
  /\ scans' = IF Watched(f) THEN StartScans(scans, ChangeListeners(workspaces))
                            ELSE scans
  /\ Len(scans') <= MaxScans
  /\ last' = Step("change", "-", f, {}, << >>)
  /\ UNCHANGED <<workspaces, reads, ctxSubs, watchers>>
  /\ UNCHANGED restVars

Next ==
  \/ GetChildrenRoot
  \/ \E key \in Workspaces : GetChildrenWorkspace(key)
  \/ Refresh
  \/ \E i \in 1..MaxScans : ScanList(i)
  \/ \E i \in 1..MaxScans : ScanDone(i)
  \/ \E i \in 1..MaxScans : ScanFail(i)
  \/ \E f \in Files, c \in Codes : FsCreate(f, c)
  \/ \E k \in Workspaces, f \in Files : CreateDone(k, f)
  \/ \E k \in Workspaces, f \in Files : CreateFail(k, f)
  \/ \E f \in Files : FsDelete(f)
  \/ \E f \in Files, c \in Codes : FsChange(f, c)

Spec == Init /\ [][Next]_vars

\* ------------------------------------------------------ the rename command
\* the watcher event of a rename reaches its listeners
DeliverRenameEvent(ev, from, to) ==
  IF ev = "create"
    THEN /\ reads' = DeliverCreate(reads, workspaces, to)
         /\ UNCHANGED workspaces
    ELSE /\ workspaces' = DeliverDelete(workspaces, from)
         /\ UNCHANGED reads

OtherEvent(ev) == IF ev = "create" THEN "delete" ELSE "create"

\* rename(item) for the i-th template of the loaded workspace k: the input box
\* returns RenameResult, renameFile moves the file and the watcher reports the
\* first of its two events
RenameFile(k, i, ev) ==
  /\ renaming.stage = "none"
  /\ k \in DOMAIN workspaces /\ IsDefined(workspaces[k].templates)
  /\ i \in 1..Len(ListOf(workspaces[k].templates))
  /\ LET item == ListOf(workspaces[k].templates)[i]
         to   == RenameTo(item.path)
     IN  /\ item.path \in Dynamic
         /\ Exists(disk, item.path)
         /\ disk' = [x \in (DOMAIN disk \ {item.path}) \cup {to} |->
                       IF x = to THEN disk[item.path] ELSE disk[x]]
         /\ DeliverRenameEvent(ev, item.path, to)
         /\ renaming' = [stage |-> "first", from |-> item.path, to |-> to,
                         first |-> ev, key |-> k,
                         before |-> ListOf(workspaces[k].templates)]
         /\ last' = Step("rename", k, item.path, {}, << >>)
  /\ UNCHANGED <<scans, ctxSubs, watchers, gtVars, cfVars, mgrVars>>

\* the watcher reports the other event of the rename
RenameSecond ==
  /\ renaming.stage = "first"
  /\ DeliverRenameEvent(OtherEvent(renaming.first), renaming.from, renaming.to)
  /\ renaming' = [renaming EXCEPT !.stage = "second"]
  /\ last' = Step("renameSecond", renaming.key, renaming.to, {}, << >>)
  /\ UNCHANGED <<disk, scans, ctxSubs, watchers, gtVars, cfVars, mgrVars>>

\* the catalog until a rename command runs, then the rename alone: its two
\* events and the reads that its create listeners started
NextRename ==
  \/ renaming.stage = "none" /\ Next
  \/ \E k \in Workspaces, i \in 1..MaxLen, ev \in {"create", "delete"} :
       RenameFile(k, i, ev)
  \/ RenameSecond
  \/ /\ renaming.stage # "none"
     /\ \E k \in Workspaces : CreateDone(k, renaming.to)

\* the disks of Init, and those without the template of the src directory
InitRename ==
  /\ disk \in {[f \in S \cup (Static \ T) |-> "t1"] :
                 S \in SUBSET Optional, T \in SUBSET {"A/src/a.dotjs"}}
  /\ NoTarget
  /\ tdir = NoDir
  /\ InitState

SpecRename == InitRename /\ [][NextRename]_vars

\* ---------------------------------------------------- createFile: values
\* the values an interaction function resolves to; a string is the sequence
\* of the pieces it is spelled with
JsUndefined == [undefined |-> TRUE]
JsBool(b) == [bool |-> b]
JsStr(str) == [string |-> str]
JsList(l) == [list |-> l]

\* if (value)
Truthy(v) ==
  /\ v # JsUndefined
  /\ v # JsBool(FALSE)
  /\ v # JsStr(<< >>)

PROMPT_YES == JsStr(<<"Yes">>)
PROMPT_NO == JsStr(<<"No">>)

\* the sentinel of multiselectValueCustom and the mark of a selected item
DONE == <<"DONE">>
Minus == "[-] "

\* value.startsWith('[-] '), value.slice(4), '[-] ' + value
StartsWithMinus(str) == Len(str) > 0 /\ str[1] = Minus
Slice4(str) == Tail(str)
WithMinus(str) == <<Minus>> \o str

\* Array.prototype.indexOf: 0-based, -1 when none
IndexOf(a, v) ==
  IF \E i \in 1..Len(a) : a[i] = v
    THEN (CHOOSE i \in 1..Len(a) : a[i] = v /\ \A j \in 1..(i - 1) : a[j] # v) - 1
    ELSE -1

\* Array.prototype.splice(start, 1, item): the array that is left
SpliceReplace(a, start, item) ==
  LET from == IF start < 0 THEN Max(Len(a) + start, 0) ELSE Min(start, Len(a))
      n    == Min(1, Len(a) - from)
  IN  SubSeq(a, 1, from) \o <<item>> \o SubSeq(a, from + n + 1, Len(a))

\* Array.prototype.slice(0, -1)
SliceButLast(a) == SubSeq(a, 1, Len(a) - 1)

\* ------------------------------------------------- createFile: the template
\* the keys of the map given to interactives(), in Object.entries order
Kinds == <<"confirm", "prompt", "select", "multiselect", "multiselectNative",
           "multipath">>

\* the parameter names that the templates bind
Keys == {"NAME", "LICENSE"}

\* the choices that the templates offer, and the files under the path base
Items == << <<"x">>, <<"y">> >>
PathItems == << <<"p">> >>

\* the arguments of the i-th context call of a template: its message is its
\* own, told apart by i
ArgsOf(kind, i) ==
  CASE kind \in {"confirm", "prompt"} -> <<i>>
    [] kind = "multipath"             -> <<i, "base">>
    [] OTHER                          -> <<i, Items>>

\* the context calls a template may hold
CallChoices ==
  {[kind |-> Kinds[k], propName |-> "NAME"] : k \in 1..Len(Kinds)}
    \cup {[kind |-> k, propName |-> "LICENSE"] : k \in {"confirm", "multiselect"}}

CallsOfTemplate(f) ==
  [i \in DOMAIN f |-> [kind |-> f[i].kind, propName |-> f[i].propName,
                       args |-> ArgsOf(f[i].kind, i)]]

\* templatesManager.get(label): the templates createFile may be given
Templates ==
  {[calls |-> CallsOfTemplate(f), malformed |-> m] :
     f \in UNION {[1..n -> CallChoices] : n \in 0..MaxCalls}, m \in BOOLEAN}

\* ------------------------------------------------- createFile: interactives
\* Map.prototype.set: a key that is there keeps its place
MapSet_DeleteFirst(m, key, value) ==
  Append(SelectSeq(m, LAMBDA e : e.key # key), [key |-> key, value |-> value])

MapSet_Push(m, key, value) == Append(m, [key |-> key, value |-> value])

MapSet(m, key, value) ==
  IF \E i \in 1..Len(m) : m[i].key = key
    THEN [i \in 1..Len(m) |-> IF m[i].key = key THEN [key |-> key, value |-> value]
                                                 ELSE m[i]]
    ELSE Append(m, [key |-> key, value |-> value])

\* an interaction function has been called and has not settled
Pending(key, kind, args) ==
  [key |-> key, kind |-> kind, args |-> args,
   stage |-> IF kind = "multipath" THEN "root" ELSE "ui",
   selectedItems |-> << >>,
   itemsList |-> IF kind = "multiselect" THEN <<DONE>> \o args[2] ELSE << >>,
   picks |-> 0]

Asked(key, kind, args) == [key |-> key, kind |-> kind, args |-> args]

\* context[kind](propName, ...args), on st = [interactives, asked, outstanding]:
\* what it leaves and what it returns
ContextCall_Invokes(st, kind, propName, args) ==
  [interactives |-> MapSet(st.interactives, propName,
                           [interactive |-> kind, args |-> args]),
   asked |-> Append(st.asked, Asked(propName, kind, args)),
   outstanding |-> Append(st.outstanding, Pending(propName, kind, args)),
   ret |-> JsStr(<< >>)]

ContextCall(st, kind, propName, args) ==
  [interactives |-> MapSet(st.interactives, propName,
                           [interactive |-> kind, args |-> args]),
   asked |-> st.asked,
   outstanding |-> st.outstanding,
   ret |-> JsStr(<< >>)]

\* ------------------------------------------- createFile: the interactions
\* the sublists of a list of items, in the order of the list
SubLists(items) ==
  {SelectSeq(items, LAMBDA it : it \in S) : S \in SUBSET Range(items)}

\* what the dialog of a pending interaction function may resolve to
UiChoices(c) ==
  CASE c.kind = "confirm" -> {PROMPT_YES, PROMPT_NO, JsUndefined}
    [] c.kind = "prompt"  -> {JsStr(<<"text">>), JsUndefined}
    [] c.kind = "select"  -> {JsStr(it) : it \in Range(c.args[2])} \cup {JsUndefined}
    [] c.kind = "multiselectNative" ->
         {JsList(l) : l \in SubLists(c.args[2])} \cup {JsUndefined}
    [] OTHER ->
         IF c.picks + 1 < MaxPicks
           THEN {JsStr(it) : it \in Range(c.itemsList)} \cup {JsUndefined}
           ELSE {JsStr(DONE), JsUndefined}

\* one turn of the do-while loop of multiselectValueCustom with value v: the
\* call as it goes on, or the list it returns
CustomPick(c, v) ==
  LET str == v.string
      sel == IF ~Truthy(v) THEN c.selectedItems
             ELSE IF StartsWithMinus(str)
               THEN Splice(c.selectedItems, IndexOf(c.selectedItems, Slice4(str)), 1)
               ELSE Append(c.selectedItems, str)
      lst == IF ~Truthy(v) THEN c.itemsList
             ELSE IF StartsWithMinus(str)
               THEN SpliceReplace(c.itemsList, IndexOf(c.itemsList, str), Slice4(str))
               ELSE SpliceReplace(c.itemsList, IndexOf(c.itemsList, str), WithMinus(str))
      goOn == Truthy(v) /\ str # DONE
  IN  [goOn |-> goOn,
       call |-> [c EXCEPT !.selectedItems = sel, !.itemsList = lst,
                          !.picks = c.picks + 1],
       value |-> JsList(SliceButLast(sel))]

\* confirm, promptValue, selectValue, multiselectValue: what the function
\* returns when its dialog resolved to v
ValueOf_Raw(c, v) == v

ValueOf(c, v) == IF c.kind = "confirm" THEN JsBool(v = PROMPT_YES) ELSE v

\* the await of the loop of run(): the next interaction function is called
\* when none is outstanding
Awaited_Never(out) == TRUE

Awaited(out) == out = << >>

\* ------------------------------------------- createFile: the render context
FileName == <<"n">>
Extension == <<".ext">>

\* new Date().toISOString(), .replace('T', ' '), .replace(/\.\w+/, '')
IsoDate == <<"2020-01-02", "T", "03:04:05", ".678Z">>
ReplaceFirst(str, piece, by) ==
  IF IndexOf(str, piece) < 0 THEN str
  ELSE SubSeq(str, 1, IndexOf(str, piece)) \o by
         \o SubSeq(str, IndexOf(str, piece) + 2, Len(str))
DateOf(iso) == ReplaceFirst(ReplaceFirst(iso, "T", <<" ">>), ".678Z", << >>)

BuiltIn(name) ==
  [DIR       |-> JsStr(<<"/w/", "dir">>),
   DIRNAME   |-> JsStr(<<"dir">>),
   FILE      |-> JsStr(name \o Extension),
   FILE_PATH |-> JsStr(<<"/w/", "dir", "/">> \o name \o Extension),
   USER      |-> JsStr(<<"user">>),
   NAME      |-> JsStr(name),
   DATE      |-> JsStr(DateOf(IsoDate))]

\* templatesManager.config.customVars
customVars == [USER |-> JsStr(<<"cfgUser">>), LICENSE |-> JsStr(<<"MIT">>)]

Spread_FirstWins(a, b) ==
  [k \in DOMAIN a \cup DOMAIN b |-> IF k \in DOMAIN a THEN a[k] ELSE b[k]]

\* { ...a, ...b }
Spread(a, b) ==
  [k \in DOMAIN a \cup DOMAIN b |-> IF k \in DOMAIN b THEN b[k] ELSE a[k]]

\* params
Params(name, res) == Spread(Spread(BuiltIn(name), customVars), res)

\* compiled(params): the text of a template rendered with params
Render(t, params) == [template |-> t.calls, params |-> params]

\* ------------------------------------------------ createFile: the command
\* the state that createFile leaves alone
nonCfVars == <<disk, catalogVars, last, gtVars, renaming, mgrVars>>

\* catch (error): showErrorMessage(`Creation interrupted: ${error}`)
Interrupted_Silent ==
  /\ shown' = shown
  /\ pc' = "done"

Interrupted ==
  /\ shown' = TRUE
  /\ pc' = "done"

\* createFile({label, path}) is called for template t: showInputBox is open
CreateFile(t) ==
  /\ pc = "idle"
  /\ tmpl' = t
  /\ pc' = "name"
  /\ UNCHANGED <<ci, interactives, returned, pos, outstanding, asked, result,
                 runRet, target, writes, replaced, shown>>
  /\ UNCHANGED nonCfVars

\* the filename box resolves to name (or rejects); templatesManager.get(label)
\* finds the template or not
NameAnswered(name, found) ==
  /\ pc = "name"
  /\ IF name = Rejected \/ (Truthy(name) /\ ~found)
       THEN Interrupted
       ELSE /\ pc' = IF Truthy(name) THEN "exists" ELSE "done"
            /\ UNCHANGED shown
  /\ UNCHANGED <<tmpl, ci, interactives, returned, pos, outstanding, asked,
                 result, runRet, target, writes, replaced>>
  /\ UNCHANGED nonCfVars

ExistsAnswered_NotAsked ==
  /\ pc = "exists"
  /\ pc' = "compile"
  /\ UNCHANGED <<tmpl, ci, interactives, returned, pos, outstanding, asked,
                 result, runRet, target, writes, replaced, shown>>
  /\ UNCHANGED nonCfVars

\* await exists(filename) resolves
ExistsAnswered ==
  /\ pc = "exists"
  /\ pc' = IF target.exists THEN "confirm" ELSE "compile"
  /\ UNCHANGED <<tmpl, ci, interactives, returned, pos, outstanding, asked,
                 result, runRet, target, writes, replaced, shown>>
  /\ UNCHANGED nonCfVars

ReplaceAnswered_Ignored(v) ==
  /\ pc = "confirm"
  /\ replaced' = IF v = PROMPT_YES THEN "yes"
                 ELSE IF v = PROMPT_NO THEN "no" ELSE "dismissed"
  /\ pc' = "compile"
  /\ UNCHANGED <<tmpl, ci, interactives, returned, pos, outstanding, asked,
                 result, runRet, target, writes, shown>>
  /\ UNCHANGED nonCfVars

\* await confirm(`Replace existing file "${filename}"?`) resolves
ReplaceAnswered(v) ==
  /\ pc = "confirm"
  /\ replaced' = IF v = PROMPT_YES THEN "yes"
                 ELSE IF v = PROMPT_NO THEN "no" ELSE "dismissed"
  /\ pc' = IF ValueOf([kind |-> "confirm"], v) = JsBool(TRUE) THEN "compile"
                                                              ELSE "done"
  /\ UNCHANGED <<tmpl, ci, interactives, returned, pos, outstanding, asked,
                 result, runRet, target, writes, shown>>
  /\ UNCHANGED nonCfVars

\* compile(template.code, {...context, import}) makes the next context call
\* of the template
Declare ==
  /\ pc = "compile"
  /\ ci < Len(tmpl.calls)
  /\ LET c  == tmpl.calls[ci + 1]
         st == ContextCall([interactives |-> interactives, asked |-> asked,
                            outstanding |-> outstanding],
                           c.kind, c.propName, c.args)
     IN  /\ interactives' = st.interactives
         /\ asked' = st.asked
         /\ outstanding' = st.outstanding
         /\ returned' = Append(returned, st.ret)
  /\ ci' = ci + 1
  /\ UNCHANGED <<pc, tmpl, pos, result, runRet, target, writes, replaced, shown>>
  /\ UNCHANGED nonCfVars

\* compile throws on a malformed template
CompileThrows ==
  /\ pc = "compile"
  /\ tmpl.malformed
  /\ Interrupted
  /\ UNCHANGED <<tmpl, ci, interactives, returned, pos, outstanding, asked,
                 result, runRet, target, writes, replaced>>
  /\ UNCHANGED nonCfVars

\* compile returns; the params literal is evaluated up to run(): result = {}
RunStart ==
  /\ pc = "compile"
  /\ ~tmpl.malformed
  /\ ci = Len(tmpl.calls)
  /\ result' = << >>
  /\ pos' = 0
  /\ pc' = "run"
  /\ UNCHANGED <<tmpl, ci, interactives, returned, outstanding, asked, runRet,
                 target, writes, replaced, shown>>
  /\ UNCHANGED nonCfVars

\* run(): the loop calls the interaction function of the next entry
RunInvoke ==
  /\ pc = "run"
  /\ Awaited(outstanding)
  /\ pos < Len(interactives)
  /\ LET e == interactives[pos + 1]
     IN  /\ outstanding' = Append(outstanding,
                                  Pending(e.key, e.value.interactive, e.value.args))
         /\ asked' = Append(asked, Asked(e.key, e.value.interactive, e.value.args))
  /\ pos' = pos + 1
  /\ UNCHANGED <<pc, tmpl, ci, interactives, returned, result, runRet, target,
                 writes, replaced, shown>>
  /\ UNCHANGED nonCfVars

\* result[key] = await interactive(...args): call i has settled with value v
Settle(i, v) ==
  /\ result' = Put(result, outstanding[i].key, v)
  /\ outstanding' = RemoveAt(outstanding, i)

\* multipath: getProjectDir() gives a root, or none and the function returns
MultipathRoot(i, root) ==
  /\ pc = "run"
  /\ i \in 1..Len(outstanding)
  /\ outstanding[i].stage = "root"
  /\ IF root
       THEN /\ outstanding' = [outstanding EXCEPT ![i].stage = "readdirp"]
            /\ UNCHANGED result
       ELSE Settle(i, JsUndefined)
  /\ UNCHANGED <<pc, tmpl, ci, interactives, returned, pos, asked, runRet,
                 target, writes, replaced, shown>>
  /\ UNCHANGED nonCfVars

\* multipath: readdirp.promise resolves and multiselectValueCustom starts
MultipathList(i) ==
  /\ pc = "run"
  /\ i \in 1..Len(outstanding)
  /\ outstanding[i].stage = "readdirp"
  /\ outstanding' = [outstanding EXCEPT ![i].stage = "ui",
                                         ![i].itemsList = <<DONE>> \o PathItems]
  /\ UNCHANGED <<pc, tmpl, ci, interactives, returned, pos, asked, result,
                 runRet, target, writes, replaced, shown>>
  /\ UNCHANGED nonCfVars

\* the dialog of call i resolves to v
UiAnswer(i, v) ==
  /\ pc = "run"
  /\ i \in 1..Len(outstanding)
  /\ outstanding[i].stage = "ui"
  /\ v \in UiChoices(outstanding[i])
  /\ IF outstanding[i].kind \in {"multiselect", "multipath"}
       THEN LET p == CustomPick(outstanding[i], v)
            IN  IF p.goOn
                  THEN /\ outstanding' = [outstanding EXCEPT ![i] = p.call]
                       /\ UNCHANGED result
                  ELSE Settle(i, p.value)
       ELSE Settle(i, ValueOf(outstanding[i], v))
  /\ UNCHANGED <<pc, tmpl, ci, interactives, returned, pos, asked, runRet,
                 target, writes, replaced, shown>>
  /\ UNCHANGED nonCfVars

InteractionRejects_Swallowed(i) ==
  /\ pc = "run"
  /\ i \in 1..Len(outstanding)
  /\ outstanding[i].stage \in {"ui", "readdirp"}
  /\ Settle(i, JsUndefined)
  /\ UNCHANGED <<pc, tmpl, ci, interactives, returned, pos, asked, runRet,
                 target, writes, replaced, shown>>
  /\ UNCHANGED nonCfVars

\* the dialog or the listing of call i rejects: run() rejects, createFile
\* catches
InteractionRejects(i) ==
  /\ pc = "run"
  /\ i \in 1..Len(outstanding)
  /\ outstanding[i].stage \in {"ui", "readdirp"}
  /\ outstanding' = RemoveAt(outstanding, i)
  /\ runRet' = Rejected
  /\ Interrupted
  /\ UNCHANGED <<tmpl, ci, interactives, returned, pos, asked, result, target,
                 writes, replaced>>
  /\ UNCHANGED nonCfVars

\* run() returns result; writeFile(filename, compiled(params)) is called
RunReturn ==
  /\ pc = "run"
  /\ Awaited(outstanding)
  /\ pos = Len(interactives)
  /\ runRet' = Resolved(result)
  /\ writes' = Append(writes, Render(tmpl, Params(FileName, result)))
  /\ pc' = "write"
  /\ UNCHANGED <<tmpl, ci, interactives, returned, pos, outstanding, asked,
                 result, target, replaced, shown>>
  /\ UNCHANGED nonCfVars

WriteSettles_Partial(ok) ==
  /\ pc = "write"
  /\ IF ok
       THEN /\ target' = [exists |-> TRUE, text |-> writes[Len(writes)]]
            /\ pc' = "done"
            /\ UNCHANGED shown
       ELSE /\ Interrupted
            /\ target' = [exists |-> TRUE, text |-> [partial |-> writes[Len(writes)]]]
  /\ UNCHANGED <<tmpl, ci, interactives, returned, pos, outstanding, asked,
                 result, runRet, writes, replaced>>
  /\ UNCHANGED nonCfVars

\* writeFile resolves (openFile follows) or rejects
WriteSettles(ok) ==
  /\ pc = "write"
  /\ IF ok
       THEN /\ target' = [exists |-> TRUE, text |-> writes[Len(writes)]]
            /\ pc' = "done"
            /\ UNCHANGED shown
       ELSE /\ Interrupted
            /\ UNCHANGED target
  /\ UNCHANGED <<tmpl, ci, interactives, returned, pos, outstanding, asked,
                 result, runRet, writes, replaced>>
  /\ UNCHANGED nonCfVars

\* the answers of the filename box and of the replace dialog
NameChoices == {JsStr(FileName), JsStr(<< >>), JsUndefined, Rejected}
DialogChoices ==
  {PROMPT_YES, PROMPT_NO, JsUndefined, JsStr(<<"text">>)}
    \cup {JsStr(it) : it \in Range(<<DONE>> \o Items \o PathItems)}
    \cup {JsStr(WithMinus(it)) : it \in Range(Items \o PathItems)}
    \cup {JsList(l) : l \in SubLists(Items)}

NextCreateFile ==
  \/ pc = "idle" /\ \E t \in Templates : CreateFile(t)
  \/ \E name \in NameChoices, found \in BOOLEAN : NameAnswered(name, found)
  \/ ExistsAnswered
  \/ \E v \in {PROMPT_YES, PROMPT_NO, JsUndefined} : ReplaceAnswered(v)
  \/ Declare
  \/ CompileThrows
  \/ RunStart
  \/ RunInvoke
  \/ \E i \in 1..Len(outstanding), root \in BOOLEAN : MultipathRoot(i, root)
  \/ \E i \in 1..Len(outstanding) : MultipathList(i)
  \/ \E i \in 1..Len(outstanding) :
       \E v \in UiChoices(outstanding[i]) : UiAnswer(i, v)
  \/ \E i \in 1..Len(outstanding) : InteractionRejects(i)
  \/ RunReturn
  \/ \E ok \in BOOLEAN : WriteSettles(ok)

\* createFile for a target that is there or not
InitCreateFile ==
  /\ disk = [f \in Static |-> "t1"]
  /\ target \in {[exists |-> FALSE, text |-> NoText],
                 [exists |-> TRUE, text |-> OldText]}
  /\ tdir = NoDir
  /\ InitState

SpecCreateFile == InitCreateFile /\ [][NextCreateFile]_vars

\* ------------------------------------------- the getTemplates catalog
\* EntryInfo.path: the path relative to the folder that was walked
RelPathOf(f) ==
  CASE f = "A/a.dotjs"         -> "a.dotjs"
    [] f = "A/c.dotjs"         -> "c.dotjs"
    [] f = "A/src/a.dotjs"     -> "src/a.dotjs"
    [] f = "A/rebuild/r.dotjs" -> "rebuild/r.dotjs"
    [] f = "A/dist/d.dotjs"    -> "dist/d.dotjs"
    [] f = "A/notes.txt"       -> "notes.txt"
    [] OTHER                   -> "b.dotjs"

\* readTemplate of an EntryInfo, given the text that readFile returned
EntryTemplateOf(f, code) ==
  [contextValue |-> "template",
   name  |-> Basename(f),
   label |-> Basename(f),
   code  |-> code,
   path  |-> RelPathOf(f)]

\* templates[workspace] = { templates: [], needUpdate: false, subscriptions: [] }
NewTemplatesEntry == [templates |-> << >>, needUpdate |-> FALSE, subscriptions |-> << >>]

\* templates[workspace] && !templates[workspace].needUpdate
Cached(t, workspace) == workspace \in DOMAIN t /\ ~t[workspace].needUpdate

\* the listeners of the watcher of getTemplates
DirtySubscriptions(workspace) ==
  << <<workspace, "onDidCreate">>, <<workspace, "onDidDelete">>,
     <<workspace, "onDidChange">> >>

\* makeDirty of every workspace that subscribed
makeDirty(t) ==
  [k \in DOMAIN t |->
     IF Len(t[k].subscriptions) > 0 THEN [t[k] EXCEPT !.needUpdate = TRUE] ELSE t[k]]

\* a call of getTemplates past its first await; events tells whether a watcher
\* event came while it was in flight
NewCall(workspace) ==
  [key |-> workspace, stage |-> "listing", files |-> << >>, events |-> FALSE]

\* a watcher event comes while the calls cs are in flight
WithEvent(cs, f) ==
  [i \in DOMAIN cs |-> IF Watched(f) THEN [cs[i] EXCEPT !.events = TRUE] ELSE cs[i]]

\* getTemplates(workspace) up to its first await
GetTemplates(workspace) ==
  IF Cached(templates, workspace)
    THEN /\ last' = Step("getTemplates", workspace, "-", {},
                         templates[workspace].templates)
         /\ UNCHANGED <<disk, templates, gtScans, gtCtxSubs, gtWatchers>>
    ELSE
      LET e   == IF workspace \in DOMAIN templates THEN templates[workspace]
                                                   ELSE NewTemplatesEntry
          sub == Len(e.subscriptions) = 0
      IN  /\ Len(gtScans) < MaxScans
          /\ templates' = Put(templates, workspace,
                              IF sub THEN [e EXCEPT !.subscriptions =
                                             DirtySubscriptions(workspace)]
                                     ELSE e)
          /\ gtScans' = Append(gtScans, NewCall(workspace))
          /\ gtCtxSubs' = IF sub THEN gtCtxSubs \o DirtySubscriptions(workspace)
                                 ELSE gtCtxSubs
          /\ gtWatchers' = IF sub THEN [gtWatchers EXCEPT ![workspace] = @ + 1]
                                  ELSE gtWatchers
          /\ last' = Step("getTemplatesScan", workspace, "-", {}, << >>)
          /\ UNCHANGED disk

\* await Promise.all(reads) of call i resolves
GetTemplatesList(i) ==
  /\ i \in 1..Len(gtScans)
  /\ gtScans[i].stage = "listing"
  /\ gtScans' = [gtScans EXCEPT ![i].stage = "reading",
                                 ![i].files = Readdirp(disk, gtScans[i].key)]
  /\ last' = Step("getTemplatesList", gtScans[i].key, "-", {}, << >>)
  /\ UNCHANGED <<disk, templates, gtCtxSubs, gtWatchers>>

\* await Promise.all(files.map(readTemplate)) of call i resolves; the call
\* returns (the step records "event" when a watcher event came during the call)
GetTemplatesDone(i) ==
  /\ i \in 1..Len(gtScans)
  /\ gtScans[i].stage = "reading"
  /\ \A j \in 1..Len(gtScans[i].files) : Exists(disk, gtScans[i].files[j])
  /\ LET key == gtScans[i].key
         fs  == gtScans[i].files
         x   == [j \in 1..Len(fs) |-> EntryTemplateOf(fs[j], disk[fs[j]])]
     IN  /\ templates' = [templates EXCEPT ![key].templates = x]
         /\ last' = Step("getTemplatesDone", key,
                         IF gtScans[i].events THEN "event" ELSE "-", Range(fs), x)
  /\ gtScans' = RemoveAt(gtScans, i)
  /\ UNCHANGED <<disk, gtCtxSubs, gtWatchers>>

\* a readFile of call i rejects: the call rejects
GetTemplatesFail(i) ==
  /\ i \in 1..Len(gtScans)
  /\ gtScans[i].stage = "reading"
  /\ \E j \in 1..Len(gtScans[i].files) : ~Exists(disk, gtScans[i].files[j])
  /\ gtScans' = RemoveAt(gtScans, i)
  /\ last' = Step("getTemplatesFail", gtScans[i].key, "-", {}, << >>)
  /\ UNCHANGED <<disk, templates, gtCtxSubs, gtWatchers>>

\* a template file appears, disappears or is rewritten: every listener is makeDirty
DirtyCreate(f, c) ==
  /\ f \in Dynamic /\ ~Exists(disk, f)
  /\ disk' = Put(disk, f, c)
  /\ templates' = IF Watched(f) THEN makeDirty(templates) ELSE templates
  /\ last' = Step("create", "-", f, {}, << >>)
  /\ gtScans' = WithEvent(gtScans, f)
  /\ UNCHANGED <<gtCtxSubs, gtWatchers>>

DirtyDelete(f) ==
  /\ f \in Dynamic /\ Exists(disk, f)
  /\ disk' = [x \in DOMAIN disk \ {f} |-> disk[x]]
  /\ templates' = IF Watched(f) THEN makeDirty(templates) ELSE templates
  /\ last' = Step("delete", "-", f, {}, {})
  /\ gtScans' = WithEvent(gtScans, f)
  /\ UNCHANGED <<gtCtxSubs, gtWatchers>>

DirtyChange(f, c) ==
  /\ f \in Dynamic /\ Exists(disk, f)
  /\ disk' = [disk EXCEPT ![f] = c]
  /\ templates' = IF Watched(f) THEN makeDirty(templates) ELSE templates
  /\ last' = Step("change", "-", f, {}, << >>)
  /\ gtScans' = WithEvent(gtScans, f)
  /\ UNCHANGED <<gtCtxSubs, gtWatchers>>

NextGetTemplates ==
  \/ \E workspace \in Workspaces : GetTemplates(workspace) /\ UNCHANGED <<catalogVars, renaming, cfVars, mgrVars>>
  \/ \E i \in 1..MaxScans : GetTemplatesList(i) /\ UNCHANGED <<catalogVars, renaming, cfVars, mgrVars>>
  \/ \E i \in 1..MaxScans : GetTemplatesDone(i) /\ UNCHANGED <<catalogVars, renaming, cfVars, mgrVars>>
  \/ \E i \in 1..MaxScans : GetTemplatesFail(i) /\ UNCHANGED <<catalogVars, renaming, cfVars, mgrVars>>
  \/ \E f \in Files, c \in Codes : DirtyCreate(f, c) /\ UNCHANGED <<catalogVars, renaming, cfVars, mgrVars>>
  \/ \E f \in Files : DirtyDelete(f) /\ UNCHANGED <<catalogVars, renaming, cfVars, mgrVars>>
  \/ \E f \in Files, c \in Codes : DirtyChange(f, c) /\ UNCHANGED <<catalogVars, renaming, cfVars, mgrVars>>

SpecGetTemplates == Init /\ [][NextGetTemplates]_vars

\* ------------------------------------------------- the templates manager
\* the names vscode.workspace.name may take
WorkspaceNames == {"W1", "W2"}

\* the names of the files of the templates directory, in readDir order; a
\* name is the sequence of the pieces it is spelled with
DirOrder == << <<"_", "p">>, <<"t">>, <<"u">> >>

\* basename(x).startsWith('_')
StartsWithUnderscore(name) == Len(name) > 0 /\ name[1] = "_"

\* readDir(templatesDir)
ReadDir(d) == SelectSeq(DirOrder, LAMBDA n : n \in DOMAIN d.files)

\* filenames.filter(x => !basename(x).startsWith('_'))
Filtered(filenames) == SelectSeq(filenames, LAMBDA n : ~StartsWithUnderscore(n))

\* the Template that update() builds for a file name
ManagerTemplateOf(name, code) ==
  [type |-> "template", name |-> name, label |-> name, code |-> code,
   path |-> ".vscode/templates"]

\* the registrations that the n-th pass of onUpdate pushes to subs
Registrations(n) ==
  << [watch |-> n, on |-> "watcher.onDidCreate"],
     [watch |-> n, on |-> "watcher.onDidDelete"],
     [watch |-> n, on |-> "watcher.onDidChange"],
     [watch |-> n, on |-> "dirWatcher.onDidDelete"] >>

\* the passes of onUpdate that created watchers
WatchersCreated == Cardinality({mgrCtxSubs[i].watch : i \in 1..Len(mgrCtxSubs)})

\* the listeners that an event reaches: registered and not disposed
Live(on) ==
  {r \in Range(mgrCtxSubs) \cup Range(subs) : r.on = on /\ r \notin disposed}

\* mutant: the else branch of update() leaves the list alone
Emptied_Kept(ts) == ts

\* templates.splice(0, templates.length)
Emptied(ts) == Splice(ts, 0, Len(ts))

\* update() is called n times: each call without a project directory empties
\* templates at once, each other call awaits exists(templatesDir)
UpdateCalls(n, root) ==
  /\ Len(updates) + n <= MaxScans
  /\ IF root
       THEN /\ updates' = updates \o [i \in 1..n |-> [stage |-> "exists", files |-> << >>]]
            /\ UNCHANGED mgrTemplates
       ELSE /\ mgrTemplates' = IF n > 0 THEN Emptied(mgrTemplates) ELSE mgrTemplates
            /\ UNCHANGED updates

\* the state that the manager leaves alone; last tells an update() that found
\* the directory missing, with the templates it found, from the other steps
nonMgrVars == <<disk, catalogVars, gtVars, renaming, cfVars>>

ManagerStep == Step("manager", "-", "-", {}, << >>)

\* update() is called by a command
Update(root) ==
  /\ UpdateCalls(1, root)
  /\ UNCHANGED <<tdir, wsName, subscribed, subs, disposed, mgrCtxSubs>>
  /\ last' = ManagerStep
  /\ UNCHANGED nonMgrVars

\* await exists(templatesDir) of update i resolves
UpdateExists(i) ==
  /\ i \in 1..Len(updates)
  /\ updates[i].stage = "exists"
  /\ IF tdir.exists
       THEN /\ updates' = [updates EXCEPT ![i].stage = "listing"]
            /\ UNCHANGED mgrTemplates
       ELSE /\ mgrTemplates' = Emptied(mgrTemplates)
            /\ updates' = RemoveAt(updates, i)
  /\ UNCHANGED <<tdir, wsName, subscribed, subs, disposed, mgrCtxSubs>>
  /\ last' = IF tdir.exists THEN ManagerStep
             ELSE Step("updateExists", "-", "-", {}, mgrTemplates)
  /\ UNCHANGED nonMgrVars

\* await readDir(templatesDir) of update i resolves, or rejects: the
\* directory is gone
UpdateReadDir(i) ==
  /\ i \in 1..Len(updates)
  /\ updates[i].stage = "listing"
  /\ updates' = IF tdir.exists
                  THEN [updates EXCEPT ![i] = [stage |-> "reading",
                                               files |-> Filtered(ReadDir(tdir))]]
                  ELSE RemoveAt(updates, i)
  /\ UNCHANGED <<tdir, wsName, subscribed, subs, disposed, mgrCtxSubs, mgrTemplates>>
  /\ last' = ManagerStep
  /\ UNCHANGED nonMgrVars

\* Promise.all of update i resolves: templates.splice(0, length, ...append)
UpdateDone(i) ==
  /\ i \in 1..Len(updates)
  /\ updates[i].stage = "reading"
  /\ \A j \in 1..Len(updates[i].files) : updates[i].files[j] \in DOMAIN tdir.files
  /\ LET fs == updates[i].files
     IN  mgrTemplates' = Emptied(mgrTemplates)
                           \o [j \in 1..Len(fs) |-> ManagerTemplateOf(fs[j], tdir.files[fs[j]])]
  /\ updates' = RemoveAt(updates, i)
  /\ UNCHANGED <<tdir, wsName, subscribed, subs, disposed, mgrCtxSubs>>
  /\ last' = ManagerStep
  /\ UNCHANGED nonMgrVars

\* a readFile of update i rejects: the listed file is gone
UpdateFail(i) ==
  /\ i \in 1..Len(updates)
  /\ updates[i].stage = "reading"
  /\ \E j \in 1..Len(updates[i].files) : updates[i].files[j] \notin DOMAIN tdir.files
  /\ updates' = RemoveAt(updates, i)
  /\ UNCHANGED <<tdir, wsName, subscribed, subs, disposed, mgrCtxSubs, mgrTemplates>>
  /\ last' = ManagerStep
  /\ UNCHANGED nonMgrVars

\* vscode.workspace.name changes
WorkspaceNamed(name) ==
  /\ name # wsName
  /\ wsName' = name
  /\ UNCHANGED <<tdir, subscribed, subs, disposed, mgrCtxSubs, mgrTemplates, updates>>
  /\ last' = ManagerStep
  /\ UNCHANGED nonMgrVars

\* onUpdate()
OnUpdate(root) ==
  /\ IF wsName # NoName /\ subscribed # wsName
       THEN /\ WatchersCreated < MaxWatchers
            /\ disposed' = IF Len(subs) > 0 THEN disposed \cup Range(subs) ELSE disposed
            /\ subs' = (IF Len(subs) > 0 THEN Splice(subs, 1, Len(subs)) ELSE subs)
                         \o Registrations(WatchersCreated + 1)
            /\ subscribed' = wsName
            /\ mgrCtxSubs' = mgrCtxSubs \o subs'
            /\ UpdateCalls(1, root)
       ELSE UNCHANGED <<subscribed, subs, disposed, mgrCtxSubs, mgrTemplates, updates>>
  /\ UNCHANGED <<tdir, wsName>>
  /\ last' = ManagerStep
  /\ UNCHANGED nonMgrVars

\* a watcher event reaches its listeners: each calls update()
Fire(on, root) == UpdateCalls(Cardinality(Live(on)), root)

\* mkdir(templatesDir); dirWatcher has no create listener
MkDir ==
  /\ ~tdir.exists
  /\ tdir' = [exists |-> TRUE, files |-> << >>]
  /\ UNCHANGED <<wsName, subscribed, subs, disposed, mgrCtxSubs, mgrTemplates, updates>>
  /\ last' = ManagerStep
  /\ UNCHANGED nonMgrVars

\* a file appears in the templates directory
FileCreated(name, c, root) ==
  /\ tdir.exists /\ name \notin DOMAIN tdir.files
  /\ tdir' = [tdir EXCEPT !.files = Put(tdir.files, name, c)]
  /\ Fire("watcher.onDidCreate", root)
  /\ UNCHANGED <<wsName, subscribed, subs, disposed, mgrCtxSubs>>
  /\ last' = ManagerStep
  /\ UNCHANGED nonMgrVars

\* a file of the templates directory is deleted
FileDeleted(name, root) ==
  /\ tdir.exists /\ name \in DOMAIN tdir.files
  /\ tdir' = [tdir EXCEPT !.files = [n \in DOMAIN tdir.files \ {name} |-> tdir.files[n]]]
  /\ Fire("watcher.onDidDelete", root)
  /\ UNCHANGED <<wsName, subscribed, subs, disposed, mgrCtxSubs>>
  /\ last' = ManagerStep
  /\ UNCHANGED nonMgrVars

\* a file of the templates directory is rewritten
FileChanged(name, c, root) ==
  /\ tdir.exists /\ name \in DOMAIN tdir.files
  /\ tdir' = [tdir EXCEPT !.files[name] = c]
  /\ Fire("watcher.onDidChange", root)
  /\ UNCHANGED <<wsName, subscribed, subs, disposed, mgrCtxSubs>>
  /\ last' = ManagerStep
  /\ UNCHANGED nonMgrVars

\* the templates directory is deleted with what it holds
DirDeleted(root) ==
  /\ tdir.exists
  /\ tdir' = NoDir
  /\ Fire("dirWatcher.onDidDelete", root)
  /\ UNCHANGED <<wsName, subscribed, subs, disposed, mgrCtxSubs>>
  /\ last' = ManagerStep
  /\ UNCHANGED nonMgrVars

NextManager ==
  \/ \E root \in BOOLEAN : Update(root)
  \/ \E i \in 1..MaxScans : UpdateExists(i)
  \/ \E i \in 1..MaxScans : UpdateReadDir(i)
  \/ \E i \in 1..MaxScans : UpdateDone(i)
  \/ \E i \in 1..MaxScans : UpdateFail(i)
  \/ \E name \in WorkspaceNames \cup {NoName} : WorkspaceNamed(name)
  \/ \E root \in BOOLEAN : OnUpdate(root)
  \/ MkDir
  \/ \E name \in Range(DirOrder), c \in Codes, root \in BOOLEAN :
       FileCreated(name, c, root)
  \/ \E name \in Range(DirOrder), root \in BOOLEAN : FileDeleted(name, root)
  \/ \E name \in Range(DirOrder), c \in Codes, root \in BOOLEAN :
       FileChanged(name, c, root)
  \/ \E root \in BOOLEAN : DirDeleted(root)

\* the manager after createTemplatesManager, on any templates directory
InitManager ==
  /\ disk = [f \in Static |-> "t1"]
  /\ NoTarget
  /\ tdir \in {NoDir} \cup
              {[exists |-> TRUE, files |-> [n \in S |-> "t1"]] :
                 S \in SUBSET Range(DirOrder)}
  /\ InitState

SpecManager == InitManager /\ [][NextManager]_vars

\* ------------------------------------------------------------ properties
\* the scans of workspace k in flight in the scan list ss
ScansOf(ss, k) == Cardinality({i \in 1..Len(ss) : ss[i].key = k})

Unloaded(ws, k) == k \notin DOMAIN ws \/ ~IsDefined(ws[k].templates)

Loaded(ws, k) == k \in DOMAIN ws /\ IsDefined(ws[k].templates)

\* C1: for every workspace at most one scan is in flight at any time (a query
\* made while a scan is outstanding starts no second one).
C1_AtMostOneScanInFlight ==
  \A k \in Workspaces : ScansOf(scans, k) <= 1

\* the files the claim C2 counts: under the workspace folder, with the template
\* extension, in no directory named node_modules, dist or build
ClaimedFiles(d, k) ==
  {f \in Files :
     /\ Exists(d, f)
     /\ FolderOf(f) = k
     /\ EndsWith(Basename(f), templateExtension)
     /\ \A i \in 1..Len(DirsOf(f)) :
          DirsOf(f)[i] \notin {<<"node_modules">>, <<"dist">>, <<"build">>}}

\* C2: a scan lists exactly the template files under the workspace folder that
\* lie outside node_modules, dist and build, and when it completes the catalog
\* holds exactly one record per listed file and is reported non-empty iff that
\* count is not zero.
C2_ScanHoldsEveryTemplateFile ==
  [][\A i \in 1..Len(scans) :
       /\ ScanList(i) =>
            /\ Range(scans'[i].files) = ClaimedFiles(disk, scans[i].key)
            /\ Len(scans'[i].files) = Cardinality(ClaimedFiles(disk, scans[i].key))
       /\ ScanDone(i) =>
            LET k  == scans[i].key
                ts == ListOf(workspaces'[k].templates)
            IN  /\ Len(ts) = Len(scans[i].files)
                /\ \A j \in 1..Len(ts) : ts[j].path = scans[i].files[j]
                /\ LoadedNode(k, ts).isEmpty = (Len(scans[i].files) = 0)]_vars

\* C3: no two records of one workspace's catalog have the same name.
C3_NamesUnique ==
  \A k \in DOMAIN workspaces :
    IsDefined(workspaces[k].templates) =>
      LET ts == ListOf(workspaces[k].templates)
      IN  \A i, j \in 1..Len(ts) : i # j => ts[i].name # ts[j].name

\* C4: a delete event for path P, in every loaded catalog that holds a record
\* with path P, removes exactly one such record, keeps every other record in
\* its place and order, and starts no scan.
C4_DeleteRemovesExactlyThatRecord ==
  [][\A f \in Files : FsDelete(f) =>
       /\ scans' = scans
       /\ \A k \in DOMAIN workspaces :
            (/\ Subscribed(workspaces, k)
             /\ Loaded(workspaces, k)
             /\ \E i \in 1..Len(ListOf(workspaces[k].templates)) :
                  ListOf(workspaces[k].templates)[i].path = f)
            => \E i \in 1..Len(ListOf(workspaces[k].templates)) :
                 /\ ListOf(workspaces[k].templates)[i].path = f
                 /\ workspaces'[k].templates =
                      Defined(RemoveAt(ListOf(workspaces[k].templates), i))]_vars

\* a delete event has removed the record of its path from a catalog that
\* still holds another record
C4_Witness ==
  /\ last.op = "delete"
  /\ \E k \in last.ret :
       /\ Loaded(workspaces, k)
       /\ Len(ListOf(workspaces[k].templates)) >= 1
       /\ \A i \in 1..Len(ListOf(workspaces[k].templates)) :
            ListOf(workspaces[k].templates)[i].path # last.file

\* C5: a create or delete event for a file outside a workspace's folder
\* leaves that workspace's templates list unchanged.
C5_OutsideEventsIgnored ==
  [][\A k \in DOMAIN workspaces :
       (/\ last'.op \in {"createDone", "delete"}
        /\ last'.op = "createDone" => last'.ws = k
        /\ FolderOf(last'.file) # k)
       => workspaces'[k].templates = workspaces[k].templates]_vars

\* C6: when the create handler for file F completes on a loaded catalog, the
\* catalog is the old list followed by one record for F (its text as read from
\* F), only F was read, and no scan was started.
C6_CreateAppendsOnlyThatRecord ==
  [][\A k \in Workspaces, f \in Files :
       (CreateDone(k, f) /\ Loaded(workspaces, k)) =>
         LET old == ListOf(workspaces[k].templates)
             new == ListOf(workspaces'[k].templates)
         IN  /\ Loaded(workspaces', k)
             /\ Len(new) = Len(old) + 1
             /\ \A i \in 1..Len(old) : new[i] = old[i]
             /\ new[Len(new)].path = f
             /\ new[Len(new)].code = disk[f]
             /\ new[Len(new)].label = Basename(f)
             /\ last'.read = {f}
             /\ scans' = scans]_vars

\* a create handler has appended the record of its file to a populated catalog
C6_Witness ==
  /\ last.op = "createDone"
  /\ Loaded(workspaces, last.ws)
  /\ LET ts == ListOf(workspaces[last.ws].templates)
     IN  /\ Len(ts) >= 2
         /\ ts[Len(ts)].path = last.file
         /\ FolderOf(last.file) = last.ws

\* C7: a root query on an unloaded workspace returns a node marked loading and
\* empty, starts one scan of that workspace and leaves its children list
\* empty; the workspace stays unloaded (its node loading, its children empty)
\* until a scan of it completes.
C7_UnloadedQueryStartsScanAndLoads ==
  [][/\ GetChildrenRoot =>
          \A i \in 1..Len(WorkspaceFolders) :
            LET k == WorkspaceFolders[i] IN
            Unloaded(workspaces, k) =>
              /\ last'.ret[i].label = k
              /\ last'.ret[i].isLoading
              /\ last'.ret[i].isEmpty
              /\ ScansOf(scans', k) = ScansOf(scans, k) + 1
              /\ scans'[Len(scans')].stage = "listing"
              /\ workspaceNodeChildren(workspaces', k) = << >>
     /\ \A k \in Workspaces :
          (Unloaded(workspaces, k) /\ Loaded(workspaces', k))
            => \E i \in 1..Len(scans) : scans[i].key = k /\ ScanDone(i)]_vars

\* a root query has returned a loading node for an unloaded workspace whose
\* scan is in flight, next to the loaded node of another workspace
C7_Witness ==
  /\ last.op = "getChildren"
  /\ \E i \in 1..Len(WorkspaceFolders) :
       /\ last.ret[i].isLoading
       /\ ScansOf(scans, WorkspaceFolders[i]) >= 1
       /\ Unloaded(workspaces, WorkspaceFolders[i])
  /\ \E i \in 1..Len(WorkspaceFolders) : ~last.ret[i].isLoading

\* C8: a modify event for a template file starts a scan of the workspace that
\* holds the file and leaves the scans and the catalog of every other
\* workspace unchanged.
C8_ModifyRescansOnlyItsWorkspace ==
  [][\A f \in Files, c \in Codes : FsChange(f, c) =>
       /\ Subscribed(workspaces, FolderOf(f)) =>
            ScansOf(scans', FolderOf(f)) = ScansOf(scans, FolderOf(f)) + 1
       /\ \A k \in Workspaces \ {FolderOf(f)} :
            /\ ScansOf(scans', k) = ScansOf(scans, k)
            /\ k \in DOMAIN workspaces => workspaces'[k] = workspaces[k]]_vars

C10_WatcherCreatedAtMostOnce ==
  \A k \in Workspaces :
    /\ watchers[k] <= 1
    /\ k \in DOMAIN workspaces =>
         workspaces[k].subscriptions =
           IF watchers[k] = 1 THEN WatcherSubscriptions(k) ELSE << >>
    /\ \A j \in 1..Len(WatcherSubscriptions(k)) :
         Cardinality({i \in 1..Len(ctxSubs) : ctxSubs[i] = WatcherSubscriptions(k)[j]})
           = watchers[k]

\* a workspace with one watcher has a second scan in flight
C10_Witness ==
  \E k \in Workspaces :
    /\ watchers[k] = 1
    /\ ScansOf(scans, k) >= 2
    /\ last.op = "getChildren"

\* the getTemplates calls of workspace k past their first await
CallsOf(ss, k) == Cardinality({i \in 1..Len(ss) : ss[i].key = k})

\* getTemplates starts no scan of a workspace while one is in flight
\* (the getTemplates side of C1)
GetTemplates_AtMostOneScanInFlight ==
  \A k \in Workspaces : CallsOf(gtScans, k) <= 1

\* getTemplates creates the watcher of a workspace at most once and keeps
\* its subscriptions (the getTemplates side of C10)
GetTemplates_WatcherCreatedAtMostOnce ==
  \A k \in Workspaces :
    /\ gtWatchers[k] <= 1
    /\ k \in DOMAIN templates =>
         templates[k].subscriptions =
           IF gtWatchers[k] = 1 THEN DirtySubscriptions(k) ELSE << >>
    /\ \A j \in 1..Len(DirtySubscriptions(k)) :
         Cardinality({i \in 1..Len(gtCtxSubs) : gtCtxSubs[i] = DirtySubscriptions(k)[j]})
           = gtWatchers[k]

\* both events of the rename have been delivered and every read that its
\* create listeners started has resolved
RenameCompleted ==
  /\ renaming.stage = "second"
  /\ \A k \in Workspaces : reads[<<k, renaming.to>>] = 0

\* the list without its records of path p
Without(ts, p) == SelectSeq(ts, LAMBDA t : t.path # p)

\* C11: once the create and the delete event of a rename have been handled, in
\* either order, the catalog that held the renamed template holds a record of
\* the new path, no record of the old path, and its other records as before.
C11_RenameLeavesNewRecordOnly ==
  RenameCompleted =>
    LET now == ListOf(workspaces[renaming.key].templates)
    IN  /\ \E i \in 1..Len(now) : now[i].path = renaming.to
        /\ \A i \in 1..Len(now) : now[i].path # renaming.from
        /\ Without(now, renaming.to) = Without(renaming.before, renaming.from)

\* the same, for a catalog that held one record of the renamed path
C11_RenameOfSingleRecord ==
  (RenameCompleted /\ Len(Without(renaming.before, renaming.from)) + 1
                        = Len(renaming.before)) =>
    LET now == ListOf(workspaces[renaming.key].templates)
    IN  /\ \E i \in 1..Len(now) : now[i].path = renaming.to
        /\ \A i \in 1..Len(now) : now[i].path # renaming.from
        /\ Without(now, renaming.to) = Without(renaming.before, renaming.from)

\* C12: a scan that fails leaves its workspace unloaded (Loading), no further
\* scan of that workspace starts before an explicit refresh, and a root query
\* still returns a node for every workspace folder, the failed one as loading.
C12_FailedScanWaitsForRefresh ==
  [][/\ \A i \in 1..Len(scans) :
          (ScanFail(i) /\ Unloaded(workspaces, scans[i].key))
            => Unloaded(workspaces', scans[i].key)
     /\ (last.op = "scanFail" /\ last'.op # "refresh")
          => ScansOf(scans', last.ws) <= ScansOf(scans, last.ws)
     /\ (last.op = "scanFail" /\ Unloaded(workspaces, last.ws) /\ GetChildrenRoot)
          => /\ Len(last'.ret) = Len(WorkspaceFolders)
             /\ \A i \in 1..Len(WorkspaceFolders) :
                  WorkspaceFolders[i] = last.ws => last'.ret[i].isLoading]_vars

\* the part of C12 that the catalog keeps: the failed scan leaves the
\* workspace unloaded and the next root query answers with a loading node
C12_FailedScanLeavesUnloaded ==
  [][/\ \A i \in 1..Len(scans) :
          (ScanFail(i) /\ Unloaded(workspaces, scans[i].key))
            => Unloaded(workspaces', scans[i].key)
     /\ (last.op = "scanFail" /\ Unloaded(workspaces, last.ws) /\ GetChildrenRoot)
          => /\ Len(last'.ret) = Len(WorkspaceFolders)
             /\ \A i \in 1..Len(WorkspaceFolders) :
                  WorkspaceFolders[i] = last.ws => last'.ret[i].isLoading]_vars

\* ---------------------------------------------------------- createFile
\* the keys of a Map, in its order
KeysOf(m) == [i \in 1..Len(m) |-> m[i].key]

\* the value a Map holds for a key
ValueAt(m, key) == (CHOOSE e \in Range(m) : e.key = key).value

\* the parameter names of context calls, in the order of their first call
FirstDeclared(calls) ==
  LET first == SelectSeq([i \in 1..Len(calls) |-> i],
                         LAMBDA i : \A j \in 1..(i - 1) :
                                      calls[j].propName # calls[i].propName)
  IN  [n \in 1..Len(first) |-> calls[first[n]].propName]

\* the last context call made for a parameter name
LastDeclared(calls, key) ==
  calls[CHOOSE i \in 1..Len(calls) :
          /\ calls[i].propName = key
          /\ \A j \in (i + 1)..Len(calls) : calls[j].propName # key]

\* C13: a context call made while compiling calls no interaction function: it
\* registers the directive of its key, or overwrites it, leaves the other
\* directives alone and returns the empty string; interaction functions are
\* called only by run().
C13_DeclareOnlyRegisters ==
  [][/\ Declare =>
          LET c == tmpl.calls[ci + 1]
          IN  /\ asked' = asked
              /\ outstanding' = outstanding
              /\ returned' = Append(returned, JsStr(<< >>))
              /\ c.propName \in Range(KeysOf(interactives'))
              /\ ValueAt(interactives', c.propName)
                   = [interactive |-> c.kind, args |-> c.args]
              /\ Range(KeysOf(interactives'))
                   = Range(KeysOf(interactives)) \cup {c.propName}
              /\ \A k \in Range(KeysOf(interactives)) \ {c.propName} :
                   ValueAt(interactives', k) = ValueAt(interactives, k)
              /\ Len(interactives') = Cardinality(Range(KeysOf(interactives')))
     /\ (asked' # asked \/ Len(outstanding') > Len(outstanding))
          => (pc = "run" /\ RunInvoke)]_vars

\* compile has made three context calls, the Map holds one directive, and no
\* interaction function has been called
C13_Witness ==
  /\ pc = "compile"
  /\ ci = 3
  /\ Len(interactives) = 1
  /\ returned = <<JsStr(<< >>), JsStr(<< >>), JsStr(<< >>)>>
  /\ asked = << >>

\* C14: run() calls the interaction functions one after the other in the
\* order of the Map: at most one is outstanding, and it is called only when
\* every directive before it has its answer in result.
C14_RunIsSequential ==
  /\ Len(outstanding) <= 1
  /\ pc \in {"run", "write", "done"} =>
       /\ Len(asked) <= Len(interactives)
       /\ \A i \in 1..Len(asked) :
            /\ asked[i] = Asked(interactives[i].key, interactives[i].value.interactive,
                                interactives[i].value.args)
            /\ (i < Len(asked) \/ outstanding = << >>) =>
                 (interactives[i].key \in DOMAIN result \/ runRet = Rejected)
       /\ outstanding # << >> => outstanding[1].key = asked[Len(asked)].key

\* the second directive is outstanding and the first has its answer
C14_Witness ==
  /\ pc = "run"
  /\ Len(asked) = 2
  /\ Len(outstanding) = 1
  /\ outstanding[1].key = interactives[2].key
  /\ DOMAIN result = {interactives[1].key}

\* the parameter names that the context calls of a template declare
DeclaredKeys(t) == {t.calls[i].propName : i \in 1..Len(t.calls)}

\* C15: in one render each declared key has its interaction function called
\* once, however often the key is declared; a template without directives
\* has none called.
C15_OncePerDeclaredKey ==
  /\ \A i, j \in 1..Len(asked) : asked[i].key = asked[j].key => i = j
  /\ {asked[i].key : i \in 1..Len(asked)} \subseteq DeclaredKeys(tmpl)
  /\ runRet = Resolved(result) =>
       /\ {asked[i].key : i \in 1..Len(asked)} = DeclaredKeys(tmpl)
       /\ Len(asked) = Cardinality(DeclaredKeys(tmpl))

\* a template that declares one key three times has been rendered to the
\* file with one interaction
C15_Witness ==
  /\ pc = "done"
  /\ Len(tmpl.calls) = 3
  /\ Len(asked) = 1
  /\ target.exists /\ writes # << >> /\ target.text = writes[1]

\* a template without directives has been rendered to the file
C15_WitnessNone ==
  /\ pc = "done"
  /\ Len(tmpl.calls) = 0
  /\ asked = << >>
  /\ target.exists /\ writes # << >> /\ target.text = writes[1]

\* C16: the Map holds the declared keys in the order of their first
\* declaration, each with the kind and the arguments of its last declaration,
\* and run() calls the interaction functions in that order.
C16_FirstDeclarationOrder ==
  LET made == SubSeq(tmpl.calls, 1, ci)
  IN  /\ KeysOf(interactives) = FirstDeclared(made)
      /\ \A i \in 1..Len(interactives) :
           interactives[i].value =
             [interactive |-> LastDeclared(made, interactives[i].key).kind,
              args |-> LastDeclared(made, interactives[i].key).args]
      /\ \A i \in 1..Len(asked) :
           /\ asked[i].key = FirstDeclared(made)[i]
           /\ asked[i].kind = LastDeclared(made, asked[i].key).kind
           /\ asked[i].args = LastDeclared(made, asked[i].key).args

\* a key was declared, then another, then the first again with another kind:
\* the first key was asked first, with the kind of its last declaration
C16_Witness ==
  /\ Len(tmpl.calls) = 3
  /\ tmpl.calls[1].propName = tmpl.calls[3].propName
  /\ tmpl.calls[1].propName # tmpl.calls[2].propName
  /\ tmpl.calls[1].kind # tmpl.calls[3].kind
  /\ Len(asked) = 2
  /\ asked[1].key = tmpl.calls[1].propName
  /\ asked[1].kind = tmpl.calls[3].kind
  /\ asked[1].args = tmpl.calls[3].args
  /\ asked[2].key = tmpl.calls[2].propName

C18_RejectionAborts ==
  [][/\ \A i \in 1..Len(outstanding) :
          InteractionRejects(i) =>
            /\ runRet' = Rejected
            /\ pc' = "done" /\ shown'
            /\ asked' = asked
            /\ writes' = << >> /\ target' = target
     /\ runRet = Rejected =>
          /\ asked' = asked /\ outstanding' = outstanding
          /\ writes' = writes /\ target' = target
          /\ pc' = "done"]_vars

\* the first of two directives has rejected: the second was never asked and
\* no file was written
C18_Witness ==
  /\ runRet = Rejected
  /\ pc = "done" /\ shown
  /\ Len(interactives) = 2
  /\ Len(asked) = 1
  /\ writes = << >>

\* the second of two directives has rejected: the answer of the first is in
\* result and no file was written
C18_WitnessDiscarded ==
  /\ runRet = Rejected
  /\ Len(asked) = 2
  /\ DOMAIN result = {asked[1].key}
  /\ writes = << >> /\ ~target.exists

C21_OneWriteAfterSuccess ==
  [][/\ Len(writes') <= 1
     /\ writes' # writes =>
          /\ pc = "run" /\ ~shown
          /\ ~tmpl.malformed /\ ci = Len(tmpl.calls)
          /\ pos = Len(interactives) /\ outstanding = << >>
          /\ DOMAIN result = DeclaredKeys(tmpl)
          /\ runRet' = Resolved(result)
          /\ writes' = <<Render(tmpl, Params(FileName, result))>>
     /\ target' # target =>
          /\ pc = "write" /\ Len(writes) = 1
          /\ target' = [exists |-> TRUE, text |-> writes[1]]
          /\ ~shown'
     /\ shown' => (target' = target /\ target'.text \in {NoText, OldText})
     /\ (shown' /\ runRet' # Resolved(result')) => writes' = << >>]_vars

\* createFile has written the text of a template with two directives, once,
\* after both had their answers
C21_Witness ==
  /\ pc = "done" /\ ~shown
  /\ Len(interactives) = 2
  /\ DOMAIN result = {"NAME", "LICENSE"}
  /\ Len(writes) = 1
  /\ target = [exists |-> TRUE, text |-> Render(tmpl, Params(FileName, result))]

\* writeFile has rejected: the error message is shown and the target is as it
\* was
C21_WitnessWriteFails ==
  /\ pc = "done" /\ shown
  /\ Len(writes) = 1
  /\ target = [exists |-> TRUE, text |-> OldText]

\* C22: a target that exists(filename) found is written only after the user
\* answered Yes to 'Replace existing file'; when the user answers No or
\* dismisses the dialog, createFile ends there, writeFile is never called and
\* the file keeps its text.
C22_OverwriteOnlyAfterConfirm ==
  [][/\ (target.text = OldText /\ writes' # writes) => replaced = "yes"
     /\ (target.text = OldText /\ target' # target) => replaced = "yes"
     /\ (pc = "exists" /\ target.exists) => pc' = "confirm"
     /\ \A v \in {PROMPT_NO, JsUndefined} :
          ReplaceAnswered(v) =>
            /\ pc' = "done" /\ replaced' \in {"no", "dismissed"}
            /\ ci' = 0 /\ writes' = << >> /\ target' = target
     /\ replaced \in {"no", "dismissed"} =>
          /\ pc = "done" /\ pc' = "done"
          /\ writes' = << >> /\ target' = target /\ target'.text = OldText]_vars

\* the user answered Yes and the existing file has the rendered text
C22_Witness ==
  /\ pc = "done" /\ ~shown
  /\ replaced = "yes"
  /\ Len(writes) = 1
  /\ target.exists /\ target.text # OldText /\ target.text = writes[1]

\* the user dismissed the dialog and the existing file is as it was
C22_WitnessDismissed ==
  /\ pc = "done" /\ ~shown
  /\ replaced = "dismissed"
  /\ writes = << >>
  /\ target = [exists |-> TRUE, text |-> OldText]

\* C23: the params given to compiled() hold every key of the built-in
\* values, of customVars and of the answers of run(); a key has the answer of
\* run() when run() bound it, else the value of customVars when customVars
\* has it, else the built-in value.
C23_LaterLayerWins ==
  \A n \in 1..Len(writes) :
    LET p == writes[n].params
        b == BuiltIn(FileName)
    IN  /\ runRet = Resolved(result)
        /\ DOMAIN p = DOMAIN b \cup DOMAIN customVars \cup DOMAIN result
        /\ \A k \in DOMAIN p :
             p[k] = IF k \in DOMAIN result THEN result[k]
                    ELSE IF k \in DOMAIN customVars THEN customVars[k]
                    ELSE b[k]

\* params was built where the three layers overlap: NAME is built in and
\* answered, LICENSE is configured and answered, USER is built in and
\* configured
C23_Witness ==
  /\ Len(writes) = 1
  /\ DOMAIN result = {"NAME", "LICENSE"}
  /\ result["NAME"] # BuiltIn(FileName)["NAME"]
  /\ result["LICENSE"] # customVars["LICENSE"]
  /\ BuiltIn(FileName)["USER"] # customVars["USER"]
  /\ writes[1].params["NAME"] = result["NAME"]
  /\ writes[1].params["LICENSE"] = result["LICENSE"]
  /\ writes[1].params["USER"] = customVars["USER"]
  /\ writes[1].params["FILE"] = BuiltIn(FileName)["FILE"]

\* no directive binds LICENSE: params has the configured value
C23_WitnessConfigured ==
  /\ Len(writes) = 1
  /\ DOMAIN result = {"NAME"}
  /\ writes[1].params["LICENSE"] = customVars["LICENSE"]

\* C24: when the templates directory is deleted while the manager watches
\* it, the dirWatcher.onDidDelete listener calls update(), and an update()
\* that finds the directory missing empties templates; once the updates in
\* flight have settled with the directory gone, templates holds no record.
C24_DirDeleteEmptiesCatalog ==
  [][/\ \A root \in BOOLEAN :
          (DirDeleted(root) /\ subscribed # NoName) =>
            IF root THEN Len(updates') = Len(updates) + 1
                    ELSE mgrTemplates' = << >>
     /\ \A i \in 1..Len(updates) :
          (UpdateExists(i) /\ ~tdir.exists) =>
            (mgrTemplates' = << >> /\ Len(updates') = Len(updates) - 1)
     /\ (subscribed' # NoName /\ ~tdir'.exists /\ updates' = << >>) =>
          mgrTemplates' = << >>]_vars

\* the manager held two records of a directory that was deleted, and the
\* update() of the dirWatcher listener has emptied templates
C24_Witness ==
  /\ subscribed # NoName
  /\ ~tdir.exists
  /\ last.op = "updateExists"
  /\ Len(last.ret) = 2
  /\ updates = << >>
  /\ mgrTemplates = << >>

\* C25: a delete event for a path that no record of a loaded catalog has
\* leaves the templates list of that catalog as it was.
C25_UnmatchedDeleteKeepsList ==
  [][\A f \in Files : FsDelete(f) =>
       \A k \in DOMAIN workspaces :
         (/\ Loaded(workspaces, k)
          /\ \A i \in 1..Len(ListOf(workspaces[k].templates)) :
               ListOf(workspaces[k].templates)[i].path # f)
         => workspaces'[k].templates = workspaces[k].templates]_vars

\* no scan and no readTemplate of a create listener is in flight
Quiescent == scans = << >> /\ \A p \in DOMAIN reads : reads[p] = 0

\* the paths of the records of a list
PathsOf(ts) == {ts[i].path : i \in 1..Len(ts)}

\* C26: when no scan and no watcher handler is pending, the list of every
\* loaded workspace holds one record for each template file that a scan of the
\* workspace finds on disk, and no other record.
C26_QuiescentCatalogMatchesDisk ==
  Quiescent =>
    \A k \in DOMAIN workspaces :
      Loaded(workspaces, k) =>
        LET ts == ListOf(workspaces[k].templates)
        IN  /\ PathsOf(ts) = Range(Readdirp(disk, k))
            /\ \A i, j \in 1..Len(ts) : ts[i].path = ts[j].path => i = j

\* C27: a scan that was in flight when refresh() ran does not load the
\* workspace when it completes: its templates stay undefined until a scan
\* started after the refresh completes.
C27_RefreshDiscardsScansInFlight ==
  [][\A i \in 1..Len(scans) :
       (last.op = "refresh" /\ ScanDone(i)) => Unloaded(workspaces', scans[i].key)]_vars

\* C28: every record of the list of a workspace has a path under the folder
\* of that workspace and in no directory named node_modules, dist or build.
C28_RecordsInsideWorkspace ==
  \A k \in DOMAIN workspaces :
    Loaded(workspaces, k) =>
      \A f \in PathsOf(ListOf(workspaces[k].templates)) :
        /\ FolderOf(f) = k
        /\ \A i \in 1..Len(DirsOf(f)) :
             DirsOf(f)[i] \notin {<<"node_modules">>, <<"dist">>, <<"build">>}

\* C29: when a call of getTemplates for a workspace has rescanned it and
\* returned, with no watcher event while it was in flight, a query of that
\* workspace that comes next, before any watcher event, returns the cached
\* list and starts no scan.
C29_RescanClearsDirty ==
  [][\A w \in Workspaces :
       (/\ last.op = "getTemplatesDone" /\ last.ws = w /\ last.file = "-"
        /\ last'.op \in {"getTemplates", "getTemplatesScan"} /\ last'.ws = w)
       => /\ last'.op = "getTemplates"
          /\ gtScans' = gtScans
          /\ last'.ret = templates[w].templates]_vars

\* the items that the list of the picker shows as selected, DONE aside
ToggledOn(c) ==
  {Slice4(it) : it \in {x \in Range(c.itemsList) : StartsWithMinus(x)}} \ {DONE}

\* C30: when the loop of multiselectValueCustom ends, by DONE or by a
\* dismissed picker, the function returns the items that are toggled on, in
\* the order in which they were selected, without DONE.
C30_ReturnsToggledItems ==
  [][\A i \in 1..Len(outstanding) :
       \A v \in {JsStr(DONE), JsUndefined} :
         (UiAnswer(i, v) /\ outstanding[i].kind \in {"multiselect", "multipath"}) =>
           LET c == outstanding[i]
           IN  /\ c.key \in DOMAIN result'
               /\ result'[c.key] = JsList(SelectSeq(c.selectedItems, LAMBDA s : s # DONE))
               /\ Range(result'[c.key].list) = ToggledOn(c)]_vars

\* C31: when onUpdate of the templates manager subscribes again because the
\* workspace name changed, subs holds afterwards exactly the four
\* registrations of that pass, none of them disposed; every registration
\* that subs held before is disposed and is out of subs; and no disposed
\* registration is among those pushed to context.subscriptions.
C31_ResubscribeKeepsOnlyLive ==
  [][\A root \in BOOLEAN :
       (OnUpdate(root) /\ wsName # NoName /\ subscribed # wsName /\ Len(subs) > 0)
       => /\ subs' = Registrations(WatchersCreated')
          /\ Range(subs') \cap disposed' = {}
          /\ Range(subs) \subseteq disposed'
          /\ Range(subs) \cap Range(subs') = {}
          /\ \A i \in (Len(mgrCtxSubs) + 1)..Len(mgrCtxSubs') :
               mgrCtxSubs'[i] \notin disposed']_vars

====
